---------------------------- MODULE Spec2Model ----------------------------
(***************************************************************************)
(* The text-to-SQL workflows of src/sql_agent.py (the graph with the       *)
(* terminal final_error step) and src/playground.py (the bare graph with   *)
(* the repair loop), as state machines over the SQLState record.           *)
(*                                                                         *)
(* Texts are sequences of tokens.  A token is one character of a model or  *)
(* database text ("a", " ", ";", newline) or one literal phrase of the     *)
(* source ("No SQL query generated", "Final error: ", ...), so that        *)
(* strip(), split(';'), join and + are computed as Python computes them.   *)
(***************************************************************************)
EXTENDS Integers, Sequences, FiniteSets, TLC

\* Longest answer of the language model to the generation prompt of sql_agent.py,
\* the one text whose statements are split and run.
MaxLen == 4
\* Longest answer of the language model to the repair and explanation prompts.
MaxShort == 2
\* Longest answer of the language model to the generation and repair prompts of
\* playground.py, which hands the text to the database whole.
MaxPg == 1
\* Most passes through error_handling explored in the playground graph,
\* whose repair loop has no bound of its own.
MaxRepairs == 1

VARIABLES
    variant,    \* which graph runs: "sql_agent", "playground" or "essay"
    pc,         \* "input" (main waits for a question), the node to run next, or "END"
    state,      \* the SQLState handed from node to node: a function on the keys present
    start,      \* history: the SQLState main() built for this run
    steps,      \* history: the nodes run so far in this run, in order
    calls,      \* history: the prompts sent to the language model in this run, each
                \* with the answer it got
    execLog,    \* history: one record per execution attempt of this run
    run,        \* number of the run in progress (1 or 2)
    first       \* history: the finished first run, kept while a second run repeats
                \* its question (<<>> when there is none)

vars == <<variant, pc, state, start, steps, calls, execLog, run, first>>

---------------------------------------------------------------------------
(* Texts *)

Whitespace == {" "}
Alphabet == {"a", " ", ";"}

\* Every text of at most n characters.
TextsUpTo(n) == UNION {[1..k -> Alphabet] : k \in 0..n}
\* What llm.invoke(messages).content can be.
LlmTexts == TextsUpTo(MaxLen)
ShortTexts == TextsUpTo(MaxShort)
PgTexts == TextsUpTo(MaxPg)

\* What db_chain.run(stmt) returns when the statement runs.
DbOutputs == {<<"x">>, <<"y">>}
\* str(e) of what db_chain.run(stmt) raises when the statement is rejected.
DbMessages == {<<"db error">>}
DbOutcomes == [ok : {TRUE}, text : DbOutputs] \cup [ok : {FALSE}, text : DbMessages]

\* The questions typed at the prompt.
Questions == {<<"q1">>}
\* db.get_table_info(): the schema text of the database, which no step changes.
DbTableInfo == <<"s1">>

RECURSIVE LStrip(_)
LStrip(s) == IF s # <<>> /\ Head(s) \in Whitespace THEN LStrip(Tail(s)) ELSE s

RECURSIVE RStrip(_)
RStrip(s) ==
    IF s # <<>> /\ s[Len(s)] \in Whitespace
    THEN RStrip(SubSeq(s, 1, Len(s) - 1))
    ELSE s

\* str.strip()
Strip(s) == RStrip(LStrip(s))

\* str.split(';'): the pieces between semicolons, empty pieces included.
RECURSIVE Split(_)
Split(s) ==
    IF \A i \in 1..Len(s) : s[i] # ";"
    THEN <<s>>
    ELSE LET i == CHOOSE k \in 1..Len(s) : s[k] = ";" /\ \A j \in 1..(k - 1) : s[j] # ";"
         IN  <<SubSeq(s, 1, i - 1)>> \o Split(SubSeq(s, i + 1, Len(s)))

\* '\n'.join(results)
RECURSIVE Join(_)
Join(results) ==
    IF results = <<>> THEN <<>>
    ELSE IF Len(results) = 1 THEN results[1]
    ELSE results[1] \o <<"\n">> \o Join(Tail(results))

\* The statements without the strip().
MutStatements(sql) == SelectSeq(Split(sql), LAMBDA f : Strip(f) # <<>>)

\* [stmt.strip() for stmt in state['sql'].split(';') if stmt.strip()]
Statements(sql) ==
    LET frags == Split(sql)
        stripped == [i \in 1..Len(frags) |-> Strip(frags[i])]
    IN  SelectSeq(stripped, LAMBDA f : f # <<>>)

---------------------------------------------------------------------------
(* The SQLState record and the prompts *)

Keys == {"query", "sql", "result", "explanation", "schema", "error"}

\* state.get(key, default)
Get(st, key, default) == IF key \in DOMAIN st THEN st[key] ELSE default

\* The graph writes the keys a node returns over the state and keeps the rest.
Merge(st, ret) == ret @@ st

get_schema == DbTableInfo

\* QUERY_PROMPT.format(schema=schema, query=state['query'])
QueryPrompt(st) ==
    [tmpl |-> "QUERY_PROMPT", schema |-> Get(st, "schema", get_schema), query |-> st["query"],
     error |-> <<>>, sql |-> <<>>]

\* ERROR_HANDLING_PROMPT.format(error=..., schema=..., query=..., sql=...)
ErrorHandlingPrompt(st) ==
    [tmpl |-> "ERROR_HANDLING_PROMPT", schema |-> Get(st, "schema", get_schema),
     query |-> st["query"], error |-> st["error"], sql |-> st["sql"]]

\* EXPLANATION_PROMPT.format(sql=state['sql'])
ExplanationPrompt(st) ==
    [tmpl |-> "EXPLANATION_PROMPT", schema |-> <<>>, query |-> <<>>, error |-> <<>>,
     sql |-> st["sql"]]

---------------------------------------------------------------------------
(* The nodes of src/sql_agent.py.  A node is a function of the state (and of *)
(* what the model or the database answers) to the keys it returns.           *)

NoSqlGenerated == <<"No SQL query generated">>
FailedToCorrect == <<"Failed to generate corrected query">>
FinalErrorPrefix == <<"Final error: ">>
UnknownError == <<"Unknown error">>

\* query_node: the stripped answer, or the error when it is blank.
query_node(st, answer) ==
    LET sql == Strip(answer)
    IN  IF sql = <<>> THEN "error" :> NoSqlGenerated ELSE "sql" :> sql

\* f"Error executing statement: {stmt}\nError: {str(e)}"
StatementError(stmt, msg) ==
    <<"Error executing statement: ">> \o stmt \o <<"\nError: ">> \o msg

\* The for loop going on to the next statement after a rejected one.
RECURSIVE MutExecLoop(_, _, _, _)
MutExecLoop(stmts, outcome, i, results) ==
    IF i > Len(stmts)
    THEN [ret |-> "result" :> Join(results), ran |-> Len(stmts)]
    ELSE IF outcome[i].ok
    THEN MutExecLoop(stmts, outcome, i + 1, Append(results, outcome[i].text))
    ELSE MutExecLoop(stmts, outcome, i + 1, results)

\* The for loop of execute_node from statement i on: outcome[i] is what
\* db_chain.run(stmts[i]) does.  Gives the keys returned and the number of
\* statements handed to the database.
RECURSIVE ExecLoop(_, _, _, _)
ExecLoop(stmts, outcome, i, results) ==
    IF i > Len(stmts)
    THEN [ret |-> "result" :> Join(results), ran |-> Len(stmts)]
    ELSE IF outcome[i].ok
    THEN ExecLoop(stmts, outcome, i + 1, Append(results, outcome[i].text))
    ELSE [ret |-> "error" :> StatementError(stmts[i], outcome[i].text), ran |-> i]

\* execute_node with the results list kept from one call to the next.
MutExecuteNode(st, outcome) ==
    ExecLoop(Statements(st["sql"]), outcome, 1,
             IF first.done THEN <<first.state["result"]>> ELSE <<>>)

\* execute_node.  state['sql'] of a state without the key raises KeyError,
\* which the outer except turns into the error "'sql'".
execute_node(st, outcome) ==
    IF "sql" \notin DOMAIN st
    THEN [ret |-> "error" :> <<"'sql'">>, ran |-> 0]
    ELSE ExecLoop(Statements(st["sql"]), outcome, 1, <<>>)

\* explain_node
explain_node(st, answer) == "explanation" :> answer

\* error_handling_node returning the corrected text under the wrong key.
MutErrorHandlingNode(st, answer) == "query" :> Strip(answer)

\* error_handling_node
error_handling_node(st, answer) ==
    LET sql == Strip(answer)
    IN  IF sql = <<>> THEN "error" :> FailedToCorrect ELSE "sql" :> sql

\* final_error without the text it is to report.
MutFinalErrorNode(st) == "error" :> FinalErrorPrefix

\* The lambda added as final_error.
final_error_node(st) == "error" :> (FinalErrorPrefix \o Get(st, "error", UnknownError))

\* The conditional edges: lambda state: 'error' in state, and the node each
\* value is mapped to.
AfterRunQuery(st) == IF "error" \in DOMAIN st THEN "handle_error" ELSE "explain_query"
MutAfterHandleError(st) == "run_query"
AfterHandleError(st) == IF "error" \in DOMAIN st THEN "final_error" ELSE "run_query"

\* SQLState(query=query, sql='', result='', explanation='', schema=get_schema(), error='')
MainState(query) ==
    [k \in Keys |-> IF k = "query" THEN query
                    ELSE IF k = "schema" THEN get_schema
                    ELSE <<>>]

\* The statements a state's sql splits into (none when the key is absent).
StatementsOf(st) == IF "sql" \in DOMAIN st THEN Statements(st["sql"]) ELSE <<>>

---------------------------------------------------------------------------
(* The nodes of src/playground.py *)

\* query_node: the answer as it is.
pg_query_node(st, answer) == "sql" :> answer

\* execute_node clearing the error of an earlier attempt when it succeeds.
MutPgExecuteNode(st, outcome) ==
    IF "sql" \notin DOMAIN st THEN "error" :> <<"'sql'">>
    ELSE IF outcome.ok THEN ("result" :> outcome.text) @@ ("error" :> <<>>)
    ELSE "error" :> outcome.text

\* execute_node: one db_chain.run of the whole text.
pg_execute_node(st, outcome) ==
    IF "sql" \notin DOMAIN st THEN "error" :> <<"'sql'">>
    ELSE IF outcome.ok THEN "result" :> outcome.text
    ELSE "error" :> outcome.text

\* error_handling_node: the answer as it is.
pg_error_handling_node(st, answer) == "sql" :> answer

\* The conditional edge with the two targets of its map exchanged.
MutPgAfterExecute(st) ==
    IF "error" \in DOMAIN st /\ st["error"] # <<>> THEN "explain" ELSE "error_handling"

\* The conditional edge lambda state: state.get('error') with the map
\* {True: "error_handling", False: "explain"}: the branch is taken on the
\* truth value of the error text (absent or empty is false).
PgAfterExecute(st) ==
    IF "error" \in DOMAIN st /\ st["error"] # <<>> THEN "error_handling" ELSE "explain"

\* state = {'query': query, 'schema': get_schema()}
PgMainState(query) == ("query" :> query) @@ ("schema" :> get_schema)

---------------------------------------------------------------------------
(* The state machine *)

NoState == [k \in {} |-> <<>>]
NoFirst == [done |-> FALSE, start |-> NoState, steps |-> <<>>, state |-> NoState,
            calls |-> <<>>, execLog |-> <<>>]

Init ==
    /\ variant \in {"sql_agent", "playground"}
    /\ pc = "input"
    /\ state = NoState
    /\ start = NoState
    /\ steps = <<>>
    /\ calls = <<>>
    /\ execLog = <<>>
    /\ run = 1
    /\ first = NoFirst

\* agent.invoke(state): the run starts at the graph's entry point.
Invoke(st, entry) ==
    /\ state' = st
    /\ start' = st
    /\ pc' = entry
    /\ steps' = <<>>
    /\ calls' = <<>>
    /\ execLog' = <<>>

\* A node has run: its keys are written, the log grows, the edge is followed.
NodeDone(node, ret, next) ==
    /\ state' = Merge(state, ret)
    /\ steps' = Append(steps, node)
    /\ pc' = next
    /\ UNCHANGED <<variant, start, run, first>>

Asked(prompt, answer) == calls' = Append(calls, [prompt |-> prompt, answer |-> answer])

\* main() of sql_agent.py: a question is read and the agent invoked on it.
Main(query) ==
    /\ variant = "sql_agent" /\ pc = "input" /\ run = 1
    /\ Invoke(MainState(query), "generate_sql")
    /\ UNCHANGED <<variant, run, first>>

GenerateSql(answer) ==
    /\ pc = "generate_sql"
    /\ Asked(QueryPrompt(state), answer)
    /\ NodeDone("generate_sql", query_node(state, answer), "run_query")
    /\ UNCHANGED execLog

RunQuery(outcome) ==
    /\ pc = "run_query"
    /\ LET done == execute_node(state, outcome)
           stmts == StatementsOf(state)
       IN  /\ execLog' = Append(execLog,
                  [hasSql |-> "sql" \in DOMAIN state,
                   sql |-> Get(state, "sql", <<>>),
                   ran |-> SubSeq(stmts, 1, done.ran),
                   outcomes |-> SubSeq(outcome, 1, done.ran),
                   ret |-> done.ret])
           /\ NodeDone("run_query", done.ret, AfterRunQuery(Merge(state, done.ret)))
    /\ UNCHANGED calls

HandleError(answer) ==
    /\ pc = "handle_error"
    /\ Asked(ErrorHandlingPrompt(state), answer)
    /\ LET ret == error_handling_node(state, answer)
       IN  NodeDone("handle_error", ret, AfterHandleError(Merge(state, ret)))
    /\ UNCHANGED execLog

\* explain_node is the same code in both files; its edge leads to END.
Explain(answer) ==
    /\ pc \in {"explain_query", "explain"}
    /\ Asked(ExplanationPrompt(state), answer)
    /\ NodeDone(pc, explain_node(state, answer), "END")
    /\ UNCHANGED execLog

FinalError ==
    /\ pc = "final_error"
    /\ NodeDone("final_error", final_error_node(state), "END")
    /\ UNCHANGED <<calls, execLog>>

\* main() of playground.py
PgMain(query) ==
    /\ variant = "playground" /\ pc = "input" /\ run = 1
    /\ Invoke(PgMainState(query), "query")
    /\ UNCHANGED <<variant, run, first>>

PgQuery(answer) ==
    /\ pc = "query"
    /\ Asked(QueryPrompt(state), answer)
    /\ NodeDone("query", pg_query_node(state, answer), "execute")
    /\ UNCHANGED execLog

PgExecute(outcome) ==
    /\ pc = "execute"
    /\ LET ret == pg_execute_node(state, outcome)
       IN  /\ execLog' = Append(execLog,
                  [hasSql |-> "sql" \in DOMAIN state,
                   sql |-> Get(state, "sql", <<>>),
                   ran |-> <<Get(state, "sql", <<>>)>>,
                   outcomes |-> <<outcome>>,
                   ret |-> ret])
           /\ NodeDone("execute", ret, PgAfterExecute(Merge(state, ret)))
    /\ UNCHANGED calls

\* The model follows the repair loop for MaxRepairs passes.
Repairs == Cardinality({i \in 1..Len(steps) : steps[i] \in {"error_handling", "handle_error"}})

PgErrorHandling(answer) ==
    /\ pc = "error_handling"
    /\ Repairs < MaxRepairs
    /\ Asked(ErrorHandlingPrompt(state), answer)
    /\ NodeDone("error_handling", pg_error_handling_node(state, answer), "execute")
    /\ UNCHANGED execLog

\* The run has ended: main prints the fields and asks for the next question.
Return ==
    /\ pc = "END"
    /\ pc' = "input"
    /\ state' = NoState /\ start' = NoState
    /\ steps' = <<>> /\ calls' = <<>> /\ execLog' = <<>>
    /\ UNCHANGED <<variant, run, first>>

Next ==
    \/ \E query \in Questions : Main(query)
    \/ \E query \in Questions : PgMain(query)
    \/ \E answer \in LlmTexts : GenerateSql(answer)
    \/ \E outcome \in [1..Len(StatementsOf(state)) -> DbOutcomes] : RunQuery(outcome)
    \/ \E answer \in ShortTexts : HandleError(answer)
    \/ \E answer \in ShortTexts : Explain(answer)
    \/ FinalError
    \/ \E answer \in PgTexts : PgQuery(answer)
    \/ \E outcome \in DbOutcomes : PgExecute(outcome)
    \/ \E answer \in PgTexts : PgErrorHandling(answer)
    \/ Return

Spec == Init /\ [][Next]_vars

---------------------------------------------------------------------------
(* Two runs on the same question with deterministic stand-ins: the model    *)
(* and the database answer as functions of the request, so a request made   *)
(* before gets the answer it got before.                                    *)

SeqRange(s) == {s[i] : i \in 1..Len(s)}

\* The prompt/answer pairs of the first run and of the run in progress.
LlmLog == SeqRange(calls) \cup SeqRange(first.calls)

DbCallsOf(log) ==
    UNION {{[stmt |-> log[i].ran[j], outcome |-> log[i].outcomes[j]] :
                j \in 1..Len(log[i].ran)} : i \in 1..Len(log)}

\* The statement/outcome pairs of the first run and of the run in progress.
DbLog == DbCallsOf(execLog) \cup DbCallsOf(first.execLog)

Deterministic ==
    /\ \A c, d \in LlmLog : c.prompt = d.prompt => c.answer = d.answer
    /\ \A c, d \in DbLog : c.stmt = d.stmt => c.outcome = d.outcome

\* The first run has ended: it is kept, and main asks again.
ReturnFirst ==
    /\ pc = "END" /\ run = 1
    /\ first' = [done |-> TRUE, start |-> start, steps |-> steps, state |-> state,
                 calls |-> calls, execLog |-> execLog]
    /\ run' = 2
    /\ pc' = "input"
    /\ state' = NoState /\ start' = NoState
    /\ steps' = <<>> /\ calls' = <<>> /\ execLog' = <<>>
    /\ UNCHANGED variant

\* The same question is typed again.
MainAgain ==
    /\ pc = "input" /\ run = 2
    /\ IF variant = "sql_agent"
       THEN Invoke(MainState(first.start["query"]), "generate_sql")
       ELSE Invoke(PgMainState(first.start["query"]), "query")
    /\ UNCHANGED <<variant, run, first>>

NextDet ==
    \/ \E query \in Questions : Main(query)
    \/ \E query \in Questions : PgMain(query)
    \/ \E answer \in LlmTexts : GenerateSql(answer) /\ Deterministic'
    \/ \E outcome \in [1..Len(StatementsOf(state)) -> DbOutcomes] :
           RunQuery(outcome) /\ Deterministic'
    \/ \E answer \in ShortTexts : HandleError(answer) /\ Deterministic'
    \/ \E answer \in ShortTexts : Explain(answer) /\ Deterministic'
    \/ FinalError
    \/ \E answer \in PgTexts : PgQuery(answer) /\ Deterministic'
    \/ \E outcome \in DbOutcomes : PgExecute(outcome) /\ Deterministic'
    \/ \E answer \in PgTexts : PgErrorHandling(answer) /\ Deterministic'
    \/ ReturnFirst
    \/ MainAgain

SpecDet == Init /\ [][NextDet]_vars

---------------------------------------------------------------------------
(* Vocabulary of the properties *)

\* A field is set: the key is present and its text is not empty (what main
\* tests before it prints a field).
IsSet(st, key) == key \in DOMAIN st /\ st[key] # <<>>

SqlAgent == variant = "sql_agent"
Ended == pc = "END"
LastStep == IF steps = <<>> THEN "none" ELSE steps[Len(steps)]
Times(node) == Cardinality({i \in 1..Len(steps) : steps[i] = node})

\* The answers the model gave in this run to the generation and to the
\* repair prompt.
Generated == calls # <<>> /\ calls[1].prompt.tmpl = "QUERY_PROMPT"
GenBlank == Generated /\ Strip(calls[1].answer) = <<>>
Repaired == Len(calls) >= 2 /\ calls[2].prompt.tmpl = "ERROR_HANDLING_PROMPT"
RepairBlank == Repaired /\ Strip(calls[2].answer) = <<>>

\* The first execution attempt of this run ran and how it ended.
FirstExecOk == execLog # <<>> /\ "result" \in DOMAIN execLog[1].ret
FirstExecFailed == execLog # <<>> /\ "error" \in DOMAIN execLog[1].ret

---------------------------------------------------------------------------
(* C1 *)

\* C1: in sql_agent, started from the state main() builds, a run whose
\* generation is not blank and whose first run_query executes every statement
\* ends through explain_query with error unset and with result and
\* explanation set.
C1_SuccessEndsThroughExplain ==
    (SqlAgent /\ Ended /\ Generated /\ ~GenBlank /\ FirstExecOk)
        => /\ LastStep = "explain_query"
           /\ ~IsSet(state, "error")
           /\ IsSet(state, "result")
           /\ IsSet(state, "explanation")

---------------------------------------------------------------------------
(* C2 *)

\* C2: in sql_agent, a run whose first run_query fails and whose handle_error
\* returns a corrected query has that query executed again, and when that
\* execution succeeds the run ends with error unset and sql equal to the
\* corrected text.
C2_RepairedRunEndsClean ==
    (SqlAgent /\ Ended /\ FirstExecFailed /\ Repaired /\ ~RepairBlank)
        => /\ Len(execLog) >= 2
           /\ "result" \in DOMAIN execLog[2].ret
                  => /\ ~IsSet(state, "error")
                     /\ state["sql"] = Strip(calls[2].answer)

---------------------------------------------------------------------------
(* C3 *)

\* C3: every run of sql_agent is bounded and cannot stop before END: it has
\* at most the four steps generate_sql, run_query, handle_error, final_error,
\* handle_error runs at most once, a node can always run until END is
\* reached, and a run whose repair failed ends with error set.
C3_BoundedRun ==
    SqlAgent =>
        /\ Len(steps) <= 4
        /\ Times("handle_error") <= 1
        /\ pc # "END" => ENABLED Next
        /\ (Ended /\ RepairBlank) => IsSet(state, "error")

\* A finished run whose execution failed and whose repair was blank.
C3_Witness ==
    /\ SqlAgent /\ Ended /\ FirstExecFailed /\ RepairBlank
    /\ steps = <<"generate_sql", "run_query", "handle_error", "final_error">>

---------------------------------------------------------------------------
(* C4 *)

\* C4: in sql_agent, when the model answers the generation prompt with blank
\* text, the error field reports it and run_query is never entered.
C4_BlankGenerationSkipsExecute ==
    (SqlAgent /\ GenBlank) => (IsSet(state, "error") /\ Times("run_query") = 0)

---------------------------------------------------------------------------
(* C5 *)

\* C5: right after an execution attempt (run_query in sql_agent, execute in
\* playground), exactly one of result and error is set.
C5_ExactlyOneOfResultError ==
    LastStep \in {"run_query", "execute"}
        => (IsSet(state, "result") # IsSet(state, "error"))

---------------------------------------------------------------------------
(* C6 *)

\* C6: whenever run_query is entered in sql_agent, sql is present and not
\* empty.
C6_SqlNonEmptyAtExecute ==
    SqlAgent => \A i \in 1..Len(execLog) : execLog[i].hasSql /\ execLog[i].sql # <<>>

---------------------------------------------------------------------------
(* C7 *)

\* A text without the whitespace at its two ends, read off its first and
\* last character that is not whitespace.
Trimmed(t) ==
    LET solid == {k \in 1..Len(t) : t[k] \notin Whitespace}
    IN  IF solid = {} THEN <<>>
        ELSE SubSeq(t, CHOOSE k \in solid : \A m \in solid : k <= m,
                       CHOOSE k \in solid : \A m \in solid : k >= m)

\* The trimmed, non-empty pieces of a text between its semicolons, left to
\* right, found by reading the text one character at a time.
RECURSIVE TrimmedFragments(_, _, _)
TrimmedFragments(rest, piece, found) ==
    LET closed == IF Trimmed(piece) = <<>> THEN found ELSE Append(found, Trimmed(piece))
    IN  IF rest = <<>> THEN closed
        ELSE IF Head(rest) = ";" THEN TrimmedFragments(Tail(rest), <<>>, closed)
        ELSE TrimmedFragments(Tail(rest), Append(piece, Head(rest)), found)

IsPrefix(s, t) == Len(s) <= Len(t) /\ s = SubSeq(t, 1, Len(s))

\* C7: the statements run_query hands to the database are the trimmed,
\* non-empty pieces of sql between semicolons, in order: all of them when
\* every statement runs, a prefix of them otherwise; a text of the shape
\* 'a;a;' runs two statements and a non-blank text without a semicolon
\* runs one, the trimmed text.
C7_StatementSplitting ==
    SqlAgent => \A i \in 1..Len(execLog) :
        LET e == execLog[i]
            expected == TrimmedFragments(e.sql, <<>>, <<>>)
        IN  /\ IsPrefix(e.ran, expected)
            /\ "result" \in DOMAIN e.ret => e.ran = expected
            /\ ("result" \in DOMAIN e.ret /\ e.sql = <<"a", ";", "a", ";">>)
                   => e.ran = <<(<<"a">>), (<<"a">>)>>
            /\ ("result" \in DOMAIN e.ret /\ e.sql # <<>>
                    /\ \A k \in 1..Len(e.sql) : e.sql[k] # ";")
                   => e.ran = <<Trimmed(e.sql)>>

\* Two statements were run, in order, from a text of the shape 'a;a;'.
C7_Witness ==
    /\ SqlAgent /\ execLog # <<>>
    /\ execLog[1].sql = <<"a", ";", "a", ";">>
    /\ execLog[1].ran = <<(<<"a">>), (<<"a">>)>>
    /\ execLog[1].ret["result"] = <<"x", "\n", "y">>

---------------------------------------------------------------------------
(* C8 *)

\* The keys a node reads with state[key], which raises when the key is absent
\* (execute_node catches what it raises).
ReadsOf(node) ==
    CASE node = "generate_sql" -> {"query"}
      [] node = "handle_error" -> {"error", "query", "sql"}
      [] node = "explain_query" -> {"sql"}
      [] OTHER -> {}

\* The error a finished run reports for the failure it met last.
ReportedFailure ==
    IF RepairBlank THEN FailedToCorrect
    ELSE IF GenBlank THEN NoSqlGenerated
    ELSE execLog[1].ret["error"]

---------------------------------------------------------------------------
(* C9 *)

\* C9: no step changes the query and schema fields: in every state of a run
\* both hold what main() put there, and every prompt built from them in the
\* run carries that schema and that question.
C9_QuestionAndSchemaKept ==
    pc # "input" =>
        /\ state["query"] = start["query"]
        /\ state["schema"] = start["schema"]
        /\ \A i \in 1..Len(calls) :
               calls[i].prompt.tmpl # "EXPLANATION_PROMPT"
                   => /\ calls[i].prompt.schema = start["schema"]
                      /\ calls[i].prompt.query = start["query"]

\* A finished sql_agent run that built the generation and the repair prompt.
C9_Witness ==
    /\ SqlAgent /\ Ended /\ Repaired /\ ~RepairBlank
    /\ LastStep = "final_error"

---------------------------------------------------------------------------
(* C10 *)

\* C10: with the model and the database answering as functions of the
\* request, a second run on the same question follows the steps of the
\* first, and ends after the same steps with the same sql and result.
C10_SecondRunRepeatsFirst ==
    run = 2 =>
        /\ state = NoState \/ start = first.start
        /\ IsPrefix(steps, first.steps)
        /\ Ended => /\ steps = first.steps
                    /\ Get(state, "sql", <<>>) = Get(first.state, "sql", <<>>)
                    /\ Get(state, "result", <<>>) = Get(first.state, "result", <<>>)

\* A second sql_agent run that has ended with a result of two statements.
C10_Witness ==
    /\ run = 2 /\ SqlAgent /\ Ended
    /\ Len(execLog[1].ran) = 2
    /\ IsSet(state, "result")

---------------------------------------------------------------------------
(* C12 *)

\* C12: in sql_agent, the step after handle_error is final_error when the
\* repair answer was blank and run_query, which executes the corrected
\* query, when it was not.
C12_RoutingAfterRepair ==
    (SqlAgent /\ LastStep = "handle_error")
        => pc = (IF RepairBlank THEN "final_error" ELSE "run_query")

---------------------------------------------------------------------------
(* C13 *)

\* '\n'.join of the outputs, built from the last output backwards.
RECURSIVE JoinedInOrder(_)
JoinedInOrder(outs) ==
    IF outs = <<>> THEN <<>>
    ELSE IF Len(outs) = 1 THEN outs[1].text
    ELSE JoinedInOrder(SubSeq(outs, 1, Len(outs) - 1)) \o <<"\n">> \o outs[Len(outs)].text

\* C13: run_query hands the statements to the database in order and stops
\* at the first one rejected: only the last statement handed over can have
\* failed; then the step returns only the error, naming that statement
\* and the database's message, and no statement after it is run; when none
\* fails every statement has run and the step returns only the result, the
\* outputs joined in order.
C13_StopsAtFirstFailure ==
    SqlAgent => \A i \in 1..Len(execLog) :
        LET e == execLog[i]
            all == TrimmedFragments(e.sql, <<>>, <<>>)
            n == Len(e.ran)
        IN  /\ IsPrefix(e.ran, all) /\ Len(e.outcomes) = n
            /\ \A j \in 1..(n - 1) : e.outcomes[j].ok
            /\ IF n > 0 /\ ~e.outcomes[n].ok
               THEN e.ret = ("error" :> (<<"Error executing statement: ">> \o all[n]
                                          \o <<"\nError: ">> \o e.outcomes[n].text))
               ELSE /\ e.ran = all
                    /\ e.ret = ("result" :> JoinedInOrder(e.outcomes))

\* The first of two statements was rejected and the second never run.
C13_Witness ==
    /\ SqlAgent /\ execLog # <<>>
    /\ execLog[1].sql = <<"a", ";", "a", "a">>
    /\ execLog[1].ran = <<(<<"a">>)>>
    /\ "result" \notin DOMAIN execLog[1].ret
    /\ state["result"] = <<>>
    /\ IsSet(state, "error")

---------------------------------------------------------------------------
(* C14 *)

Playground == variant = "playground"
AllExecsFailed == \A i \in 1..Len(execLog) : "error" \in DOMAIN execLog[i].ret

\* C14: in the playground graph nothing bounds the repair cycle: while
\* every execution attempt has failed the run is at execute or at
\* error_handling, never at explain or END, the steps after query alternate
\* execute and error_handling, a failed attempt leads to error_handling
\* and error_handling can run (the model follows it for MaxRepairs passes)
\* and leads back to execute.
C14_UnboundedRepairCycle ==
    (Playground /\ execLog # <<>> /\ AllExecsFailed) =>
        /\ pc \in {"execute", "error_handling"}
        /\ \A i \in 2..Len(steps) :
               steps[i] = (IF i % 2 = 0 THEN "execute" ELSE "error_handling")
        /\ LastStep = "execute" => pc = "error_handling"
        /\ LastStep = "error_handling" => pc = "execute"
        /\ Len(execLog) = Repairs + (IF pc = "execute" THEN 0 ELSE 1)
        /\ (pc = "error_handling" /\ Repairs < MaxRepairs) => ENABLED Next
        /\ pc = "execute" => ENABLED Next

\* Every attempt failed, error_handling ran MaxRepairs times and is due again.
C14_Witness ==
    /\ Playground /\ AllExecsFailed
    /\ Repairs = MaxRepairs /\ Len(execLog) = MaxRepairs + 1
    /\ pc = "error_handling"

---------------------------------------------------------------------------
(* C15 *)

\* C15: in the playground graph, once an execution attempt succeeds the
\* run goes on to explain, also when an earlier attempt had failed.
C15_SuccessLeavesRepairCycle ==
    (Playground /\ LastStep = "execute" /\ "result" \in DOMAIN execLog[Len(execLog)].ret)
        => pc = "explain"

---------------------------------------------------------------------------
(* C16 *)

\* C16: no step clears the error field: a step of a run taken from a state
\* where error is set leads to a state where error is set.
C16_ErrorNeverCleared ==
    [][(IsSet(state, "error") /\ pc # "END") => IsSet(state', "error")]_vars

\* The error of a failed first attempt is still set after a later attempt
\* succeeded.
C16_Witness ==
    /\ Playground /\ Len(execLog) = 2
    /\ "error" \in DOMAIN execLog[1].ret
    /\ "result" \in DOMAIN execLog[2].ret
    /\ state["error"] = execLog[1].ret["error"]

---------------------------------------------------------------------------
(* C17 *)

Terminal == {"explain_query", "final_error"}

\* C17: a sql_agent run has ended exactly when one terminal step,
\* explain_query or final_error, has run once as its last step; explanation
\* is set only in a run in which explain_query ran; and final_error writes
\* 'Final error: ' followed by the error held before it.
C17_OneTerminalStep ==
    /\ [](SqlAgent =>
            /\ Ended <=> (steps # <<>> /\ LastStep \in Terminal)
            /\ Cardinality({i \in 1..Len(steps) : steps[i] \in Terminal}) <= 1
            /\ IsSet(state, "explanation") => Times("explain_query") = 1)
    /\ [][(SqlAgent /\ pc = "final_error")
              => state'["error"] = FinalErrorPrefix \o state["error"]]_vars

\* A run ended through final_error with the execution error prefixed.
C17_Witness ==
    /\ SqlAgent /\ Ended /\ LastStep = "final_error" /\ FirstExecFailed /\ ~RepairBlank
    /\ state["error"] = FinalErrorPrefix \o execLog[1].ret["error"]

---------------------------------------------------------------------------
(* The essay graph of playground.py *)

\* The model follows revision numbers and limits up to MaxRev.
MaxRev == 3

\* What the model answers, and what one research step's searches bring back.
EssayTexts == {<<"e1">>, <<"e2">>}
SearchResults == {<<>>, <<(<<"r1">>)>>}

\* plan_node: {"plan": response.content}
plan_node(st, answer) == "plan" :> answer

\* research_plan_node: the results of the searches appended to the content.
research_plan_node(st, found) == "content" :> (st["content"] \o found)

\* generation_node: the draft and
\* "revision_number": state.get("revision_number", 1) + 1
generation_node(st, answer) ==
    ("draft" :> answer) @@ ("revision_number" :> (Get(st, "revision_number", 1) + 1))

\* reflection_node: {"critique": response.content}
reflection_node(st, answer) == "critique" :> answer

\* research_critique_node: the results of the searches appended to the content.
research_critique_node(st, found) == "content" :> (st["content"] \o found)

\* should_continue ending the run when the limit is reached, not passed.
MutShouldContinue(st) ==
    IF st["revision_number"] >= st["max_revisions"] THEN "END" ELSE "reflect"

\* if state["revision_number"] > state["max_revisions"]: return END
\* return "reflect"
should_continue(st) ==
    IF st["revision_number"] > st["max_revisions"] THEN "END" ELSE "reflect"

\* The states the graph is started on: a task, a limit, no content yet and
\* a revision number, which generation_node lets the caller leave out.
EssayBase(m) == ("task" :> <<"t1">>) @@ ("max_revisions" :> m) @@ ("content" :> <<>>)
EssayStates ==
    {EssayBase(m) : m \in 0..MaxRev}
        \cup {("revision_number" :> r) @@ EssayBase(m) : r \in 0..MaxRev, m \in 0..MaxRev}

\* builder.set_entry_point("planner")
InitEssay ==
    /\ variant = "essay"
    /\ pc = "planner"
    /\ state \in EssayStates
    /\ start = state
    /\ steps = <<>>
    /\ calls = <<>>
    /\ execLog = <<>>
    /\ run = 1
    /\ first = NoFirst

\* calls and execLog record the requests of the SQL graphs only.
Planner(answer) ==
    /\ variant = "essay" /\ pc = "planner"
    /\ NodeDone("planner", plan_node(state, answer), "research_plan")
    /\ UNCHANGED <<calls, execLog>>

ResearchPlan(found) ==
    /\ variant = "essay" /\ pc = "research_plan"
    /\ NodeDone("research_plan", research_plan_node(state, found), "generate")
    /\ UNCHANGED <<calls, execLog>>

Generate(answer) ==
    /\ variant = "essay" /\ pc = "generate"
    /\ LET ret == generation_node(state, answer)
       IN  NodeDone("generate", ret, should_continue(Merge(state, ret)))
    /\ UNCHANGED <<calls, execLog>>

Reflect(answer) ==
    /\ variant = "essay" /\ pc = "reflect"
    /\ NodeDone("reflect", reflection_node(state, answer), "research_critique")
    /\ UNCHANGED <<calls, execLog>>

ResearchCritique(found) ==
    /\ variant = "essay" /\ pc = "research_critique"
    /\ NodeDone("research_critique", research_critique_node(state, found), "generate")
    /\ UNCHANGED <<calls, execLog>>

NextEssay ==
    \/ \E answer \in EssayTexts : Planner(answer)
    \/ \E found \in SearchResults : ResearchPlan(found)
    \/ \E answer \in EssayTexts : Generate(answer)
    \/ \E answer \in EssayTexts : Reflect(answer)
    \/ \E found \in SearchResults : ResearchCritique(found)

\* graph.invoke runs the nodes one after another until END: a node that
\* is due runs.
SpecEssay == InitEssay /\ [][NextEssay]_vars /\ WF_vars(NextEssay)

---------------------------------------------------------------------------
(* C18 *)

Max(a, b) == IF a >= b THEN a ELSE b
RevisionNumber(st) == Get(st, "revision_number", 1)
\* max(1, m - r + 1) for the revision number r and the limit m of the start.
GenerateRuns == Max(1, start["max_revisions"] - RevisionNumber(start) + 1)

\* C18: the essay loop terminates: every generate step adds exactly 1 to
\* revision_number, no other step changes it, the run ends at the first
\* generate after which revision_number > max_revisions, generate runs
\* exactly max(1, m - r + 1) times, and every run reaches END.
C18_EssayLoopTerminates ==
    /\ [](/\ RevisionNumber(state) = RevisionNumber(start) + Times("generate")
          /\ Times("generate") <= GenerateRuns
          /\ Ended => (LastStep = "generate" /\ Times("generate") = GenerateRuns)
          /\ \A i \in 1..Len(steps) : i < Len(steps) /\ steps[i] = "generate"
                 => RevisionNumber(start)
                      + Cardinality({j \in 1..i : steps[j] = "generate"})
                          <= start["max_revisions"])
    /\ [][/\ pc = "generate" =>
                /\ state'["revision_number"] = RevisionNumber(state) + 1
                /\ (pc' = "END") <=> (state'["revision_number"] > state'["max_revisions"])
          /\ pc # "generate" => RevisionNumber(state') = RevisionNumber(state)]_vars
    /\ <>Ended

\* A run started at revision 1 with limit MaxRev has ended after MaxRev
\* generate steps.
C18_Witness ==
    /\ variant = "essay" /\ Ended
    /\ "revision_number" \in DOMAIN start /\ start["revision_number"] = 1
    /\ start["max_revisions"] = MaxRev
    /\ Times("generate") = MaxRev /\ Times("reflect") = MaxRev - 1
    /\ state["revision_number"] = MaxRev + 1

---------------------------------------------------------------------------
(* Two runs of the sql_agent graph on different questions, interleaved *)

\* The question of the second run; the first run's is the one of Questions.
SecondQuestion == <<"q2">>
QuestionOf(r) == IF r = 1 THEN CHOOSE q \in Questions : TRUE ELSE SecondQuestion

\* The answers to the repair prompt followed here: a blank and a non-blank one.
ParRepairs == {<<>>, <<"a">>}

\* The run in progress as a record; first holds the other run, which waits.
Current == [done |-> FALSE, pc |-> pc, start |-> start, steps |-> steps,
            state |-> state, calls |-> calls, execLog |-> execLog]

InitPar ==
    /\ variant = "sql_agent"
    /\ pc = "input"
    /\ state = NoState
    /\ start = NoState
    /\ steps = <<>>
    /\ calls = <<>>
    /\ execLog = <<>>
    /\ run = 1
    /\ first = [done |-> FALSE, pc |-> "input", start |-> NoState, steps |-> <<>>,
                state |-> NoState, calls |-> <<>>, execLog |-> <<>>]

\* agent.invoke on the state built from this run's question.
MainPar ==
    /\ pc = "input"
    /\ Invoke(MainState(QuestionOf(run)), "generate_sql")
    /\ UNCHANGED <<variant, run, first>>

\* The two runs sharing one state instead of each having its own.
MutSwitch ==
    /\ first' = [Current EXCEPT !.state = first.state]
    /\ pc' = first.pc /\ start' = first.start /\ steps' = first.steps
    /\ state' = state
    /\ calls' = first.calls /\ execLog' = first.execLog
    /\ run' = 3 - run
    /\ UNCHANGED variant

\* The other run is given the next step: each run has the state its
\* invoke was called with and every node gets that state as its argument.
Switch ==
    /\ first' = Current
    /\ pc' = first.pc /\ start' = first.start /\ steps' = first.steps
    /\ state' = first.state
    /\ calls' = first.calls /\ execLog' = first.execLog
    /\ run' = 3 - run
    /\ UNCHANGED variant

NextPar ==
    \/ MainPar
    \/ \E answer \in PgTexts : GenerateSql(answer)
    \/ \E outcome \in [1..Len(StatementsOf(state)) -> DbOutcomes] : RunQuery(outcome)
    \/ \E answer \in ParRepairs : HandleError(answer)
    \/ FinalError
    \/ Switch

SpecPar == InitPar /\ [][NextPar]_vars

---------------------------------------------------------------------------
(* C11 *)

\* The outcomes a run logged, as the argument execute_node takes for n
\* statements (those after a failure are not read).
Padded(outs, n) ==
    [j \in 1..n |-> IF j <= Len(outs) THEN outs[j] ELSE [ok |-> TRUE, text |-> <<"x">>]]

\* What the node returns when run alone on prev with the responses run c got.
SoloRet(c, node, prev) ==
    CASE node = "generate_sql" -> query_node(prev, c.calls[1].answer)
      [] node = "run_query" ->
            execute_node(prev, Padded(c.execLog[1].outcomes, Len(StatementsOf(prev)))).ret
      [] node = "handle_error" -> error_handling_node(prev, c.calls[2].answer)
      [] node = "final_error" -> final_error_node(prev)
      [] OTHER -> explain_node(prev, c.calls[Len(c.calls)].answer)

\* The WorkItem of run c after its first n steps, run alone on its question.
RECURSIVE SoloState(_, _, _)
SoloState(c, q, n) ==
    IF n = 0 THEN MainState(q)
    ELSE LET prev == SoloState(c, q, n - 1)
         IN  Merge(prev, SoloRet(c, c.steps[n], prev))

\* The node due after the first n steps of run c, run alone.
SoloNext(c, q, n) ==
    IF n = 0 THEN "generate_sql"
    ELSE CASE c.steps[n] = "generate_sql" -> "run_query"
           [] c.steps[n] = "run_query" -> AfterRunQuery(SoloState(c, q, n))
           [] c.steps[n] = "handle_error" -> AfterHandleError(SoloState(c, q, n))
           [] OTHER -> "END"

\* Run c, asked q, is where it would be alone: same steps, same WorkItem,
\* and every request it made was built from its own WorkItem.
Alone(c, q) ==
    IF c.pc = "input" THEN c.state = NoState /\ c.steps = <<>>
    ELSE /\ c.start = MainState(q)
         /\ \A n \in 1..Len(c.steps) : c.steps[n] = SoloNext(c, q, n - 1)
         /\ c.pc = SoloNext(c, q, Len(c.steps))
         /\ c.state = SoloState(c, q, Len(c.steps))
         /\ Len(c.calls) >= 1 => c.calls[1].prompt = QueryPrompt(SoloState(c, q, 0))
         /\ Len(c.execLog) >= 1 => c.execLog[1].sql = SoloState(c, q, 1)["sql"]
         /\ Len(c.calls) >= 2 => c.calls[2].prompt = ErrorHandlingPrompt(SoloState(c, q, 2))

\* C11: two runs on different questions, interleaved step by step in any
\* order, share no state: each run's steps and WorkItem are those of the
\* run taken alone with the responses it got, and each request is built from
\* the run's own WorkItem.
C11_RunsShareNoState ==
    Alone(Current, QuestionOf(run)) /\ Alone(first, QuestionOf(3 - run))

\* Both runs are under way: the first is about to repair a rejected
\* statement while the second, with its own query, is about to execute.
C11_Witness ==
    /\ run = 1 /\ pc = "handle_error"
    /\ state["query"] = QuestionOf(1)
    /\ "error" \in DOMAIN execLog[1].ret
    /\ first.pc = "run_query"
    /\ first.state["query"] = SecondQuestion
    /\ first.state["sql"] = <<"a">>

=============================================================================
